---- MODULE Spec2Model ----
(***************************************************************************)
(* Model of keybase-go: a namespaced key-counting store with expiring      *)
(* entries, kept in one SQLite table and guarded by one sync.RWMutex.      *)
(*                                                                         *)
(* Strings are sequences of one-character strings, so that CONCAT, LIKE    *)
(* and strings.ReplaceAll are computed character by character.  Time is    *)
(* the value of time.Now().UnixMilli(), counted in abstract ticks.          *)
(*                                                                         *)
(* A call of a public method is four steps of its goroutine:               *)
(*   Snapshot  reads the clock (first line of every method),               *)
(*   RLock / Lock+LockAcquired  takes k.mu,                                *)
(*   <Method>  builds the query, runs it and computes the return values,   *)
(*   Return    runs the deferred unlock and hands the values to the caller.*)
(* The arguments of a call are immutable and first read when the query is  *)
(* built, so they are bound in the <Method> step.                          *)
(***************************************************************************)
EXTENDS Integers, Sequences, FiniteSets, TLC

\* ---------------------------------------------------------------- bounds
NumProcs == 2
MaxLog == 2
MaxTime == 1
MaxTTL == 1
MaxOpts == 2
MatchLen == 3

Procs == 1..NumProcs
TTLs == 1..MaxTTL

\* ---------------------------------------------------------------- inputs
Namespaces == {<<"a">>, <<"a", "b">>}
Keys == {<<"c">>, <<"b", "c">>}
Patterns == {<<"*">>, <<"?", "c">>}

\* The keys and patterns of the pattern-matching runs: key0, key1 and their
\* prefix, a key that is only the suffix, and patterns with a trailing star,
\* a leading star and no star.
MatchKeys == {<<"k", "0">>, <<"k", "1">>, <<"k">>, <<"0">>}
MatchPatterns == {<<"k", "*">>, <<"*", "0">>, <<"k", "0">>}

invalidCount == -1

\* time.Second * 10, in the milliseconds of UnixMilli().
defaultTTL == 10000
defaultStorage == ":memory:"

\* A path of a database file (storagePath of the tests) and a path that is no
\* database file (their storageDirectory).
File == "keybase.db"
Dir == "keybase-dir"

\* No open database: before Open and after Close.
NoDB == ""

ReadOps == {"MatchKey", "CountKey", "GetKeys", "CountKeys", "GetNamespaces",
            "CountNamespaces", "CountEntries"}
WriteOps == {"Put", "PruneEntries", "ClearEntries"}
CountOps == {"CountKey", "CountKeys", "CountNamespaces", "CountEntries"}
ListOps == {"MatchKey", "GetKeys", "GetNamespaces"}
Ops == ReadOps \cup WriteOps

\* Outcomes of one collaborator call: it answers, the statement fails, the
\* row stream ends early, or the rows do not have the expected shape.
Faults == {"none", "query", "rows", "shape"}

VARIABLES log, now, ttl, mu, pc, op, ts, ctx, req, res, last, db, stored, tx

vars == <<log, now, ttl, mu, pc, op, ts, ctx, req, res, last, db, stored, tx>>

\* ---------------------------------------------------------------- values
NoReq == [namespace |-> <<>>, key |-> <<>>, active |-> FALSE, unique |-> FALSE]

nilError == [nil |-> TRUE, opname |-> "", text |-> "", unwrap |-> "none"]

\* The return values of a call, with two facts the code does not keep: cut
\* (the row stream ended before its last row) and affected (the rows the
\* statement changed, the sql.Result that queryExec drops).
NoRes == [err |-> nilError, count |-> 0, values |-> <<>>, cut |-> FALSE, affected |-> 0]

\* An error of the collaborator or of the context: its kind is what errors.Is
\* and errors.As see, its text what Error() prints.
dbError(kind) == [nil |-> FALSE, opname |-> "", text |-> kind, unwrap |-> kind]

\* fmt.Errorf("keybase.<Op>: ...: %v", err): the text of err is kept, the
\* error value itself is not wrapped.
Errorf(name, err) == [nil |-> FALSE, opname |-> name, text |-> err.text, unwrap |-> "none"]

\* ---------------------------------------------------------------- options
WithStorage(path) == [key |-> "storage", value |-> path]

WithTTL(d) == [key |-> "ttl", value |-> d]

\* The argument lists of Open over a set of options.
OptionLists(options) == UNION {[1..n -> options] : n \in 0..MaxOpts}

\* for _, opt := range opts { switch opt.key { ... } }
RECURSIVE parseLoop(_, _)
parseLoop(config, opts) ==
    IF opts = <<>> THEN config
    ELSE parseLoop(CASE Head(opts).key = "ttl" -> [config EXCEPT !.ttl = Head(opts).value]
                     [] Head(opts).key = "storage" ->
                            [config EXCEPT !.storage = Head(opts).value]
                     [] OTHER -> config,
                   Tail(opts))

\* Faulty variant: the loop stops after the first option.
parseOptions_First(opts) ==
    parseLoop([storage |-> defaultStorage, ttl |-> defaultTTL],
              IF opts = <<>> THEN opts ELSE <<Head(opts)>>)

parseOptions(opts) == parseLoop([storage |-> defaultStorage, ttl |-> defaultTTL], opts)

\* ---------------------------------------------------------------- strings
ReplaceAll(s, old, new) == [i \in 1..Len(s) |-> IF s[i] = old THEN new ELSE s[i]]

\* SQLite compares the ASCII letters of a LIKE operand without regard to case.
Fold(c) == CASE c = "A" -> "a" [] c = "B" -> "b" [] c = "C" -> "c" [] OTHER -> c

RECURSIVE Like(_, _)
Like(pat, s) ==
    IF pat = <<>> THEN s = <<>>
    ELSE IF Head(pat) = "%" THEN Like(Tail(pat), s) \/ (s # <<>> /\ Like(pat, Tail(s)))
    ELSE /\ s # <<>>
         /\ (Head(pat) = "_" \/ Fold(Head(pat)) = Fold(Head(s)))
         /\ Like(Tail(pat), Tail(s))

RECURSIVE Dedup(_)
Dedup(s) ==
    IF s = <<>> THEN <<>>
    ELSE LET front == Dedup(SubSeq(s, 1, Len(s) - 1))
             x == s[Len(s)]
         IN IF \E i \in DOMAIN front : front[i] = x THEN front ELSE Append(front, x)

Range(s) == {s[i] : i \in DOMAIN s}

\* ---------------------------------------------------------------- queries
Cond(f, col, str, num) == [f |-> f, col |-> col, str |-> str, num |-> num]
Equal(col, str) == Cond("eq", col, str, 0)
LikeCond(col, str) == Cond("like", col, str, 0)
GreaterThan(col, num) == Cond("gt", col, <<>>, num)
LessEqualThan(col, num) == Cond("le", col, <<>>, num)

Query(stmt, col, distinct, where, entry) ==
    [stmt |-> stmt, col |-> col, distinct |-> distinct, where |-> where, entry |-> entry]

NoEntry == [namespace |-> <<>>, key |-> <<>>, expiration |-> 0]

\* var tx *dbtx before a composer has built the statement of the call.
NoQuery == Query("", "", FALSE, <<>>, NoEntry)

\* CREATE TABLE IF NOT EXISTS keybase(...); CREATE INDEX IF NOT EXISTS ...
newCreateTableQuery ==
    Query("create", "", FALSE, <<>>, NoEntry)

newPutQuery(namespace, key, expiration) ==
    Query("insert", "", FALSE, <<>>,
          [namespace |-> namespace, key |-> key, expiration |-> expiration])

\* Faulty variant: `*` becomes the one-character wildcard, so it no longer
\* matches the empty run or a longer one.
newMatchKeyQuery_OneChar(namespace, pattern, active, unique, timestamp) ==
    Query("select", "key", unique,
          <<Equal("namespace", namespace),
            LikeCond("key", ReplaceAll(ReplaceAll(pattern, "*", "_"), "?", "_"))>>
          \o (IF active THEN <<GreaterThan("expiration", timestamp)>> ELSE <<>>),
          NoEntry)

\* Faulty variant: only `*` is translated, `?` reaches LIKE as it is.
newMatchKeyQuery_StarOnly(namespace, pattern, active, unique, timestamp) ==
    Query("select", "key", unique,
          <<Equal("namespace", namespace), LikeCond("key", ReplaceAll(pattern, "*", "%"))>>
          \o (IF active THEN <<GreaterThan("expiration", timestamp)>> ELSE <<>>),
          NoEntry)

newMatchKeyQuery(namespace, pattern, active, unique, timestamp) ==
    Query("select", "key", unique,
          <<Equal("namespace", namespace),
            LikeCond("key", ReplaceAll(ReplaceAll(pattern, "*", "%"), "?", "_"))>>
          \o (IF active THEN <<GreaterThan("expiration", timestamp)>> ELSE <<>>),
          NoEntry)

\* Faulty variant: the count collapses duplicates (COUNT(DISTINCT key)).
newCountKeyQuery_Distinct(namespace, key, active, timestamp) ==
    Query("select", "COUNT(DISTINCT key)", FALSE,
          <<Equal("namespace", namespace), Equal("key", key)>>
          \o (IF active THEN <<GreaterThan("expiration", timestamp)>> ELSE <<>>),
          NoEntry)

newCountKeyQuery(namespace, key, active, timestamp) ==
    Query("select", "COUNT(key)", FALSE,
          <<Equal("namespace", namespace), Equal("key", key)>>
          \o (IF active THEN <<GreaterThan("expiration", timestamp)>> ELSE <<>>),
          NoEntry)

\* Faulty variant: SELECT DISTINCT whatever unique says.
newGetKeysQuery_Distinct(namespace, active, unique, timestamp) ==
    Query("select", "key", TRUE,
          <<Equal("namespace", namespace)>>
          \o (IF active THEN <<GreaterThan("expiration", timestamp)>> ELSE <<>>),
          NoEntry)

newGetKeysQuery(namespace, active, unique, timestamp) ==
    Query("select", "key", unique,
          <<Equal("namespace", namespace)>>
          \o (IF active THEN <<GreaterThan("expiration", timestamp)>> ELSE <<>>),
          NoEntry)

\* Faulty variant: the namespace constraint is left out.
newCountKeysQuery_AnyNamespace(namespace, active, unique, timestamp) ==
    Query("select", IF unique THEN "COUNT(DISTINCT key)" ELSE "COUNT(key)", FALSE,
          IF active THEN <<GreaterThan("expiration", timestamp)>> ELSE <<>>,
          NoEntry)

\* Faulty variant: the count never collapses duplicates.
newCountKeysQuery_Plain(namespace, active, unique, timestamp) ==
    Query("select", "COUNT(key)", FALSE,
          <<Equal("namespace", namespace)>>
          \o (IF active THEN <<GreaterThan("expiration", timestamp)>> ELSE <<>>),
          NoEntry)

newCountKeysQuery(namespace, active, unique, timestamp) ==
    Query("select", IF unique THEN "COUNT(DISTINCT key)" ELSE "COUNT(key)", FALSE,
          <<Equal("namespace", namespace)>>
          \o (IF active THEN <<GreaterThan("expiration", timestamp)>> ELSE <<>>),
          NoEntry)

\* Faulty variant: SELECT namespace without DISTINCT.
newGetNamespacesQuery_All(active, timestamp) ==
    Query("select", "namespace", FALSE,
          IF active THEN <<GreaterThan("expiration", timestamp)>> ELSE <<>>,
          NoEntry)

newGetNamespacesQuery(active, timestamp) ==
    Query("select", "namespace", TRUE,
          IF active THEN <<GreaterThan("expiration", timestamp)>> ELSE <<>>,
          NoEntry)

newCountNamespacesQuery(active, timestamp) ==
    Query("select", "COUNT(DISTINCT namespace)", FALSE,
          IF active THEN <<GreaterThan("expiration", timestamp)>> ELSE <<>>,
          NoEntry)

\* Faulty variant: expiration >= timestamp instead of expiration > timestamp.
newCountEntriesQuery_AtLeast(active, unique, timestamp) ==
    Query("select",
          IF unique THEN "COUNT(DISTINCT CONCAT(namespace, key))"
                    ELSE "COUNT(CONCAT(namespace, key))",
          FALSE,
          IF active THEN <<GreaterThan("expiration", timestamp - 1)>> ELSE <<>>,
          NoEntry)

\* Faulty variant: the two flags share one branch (if unique ... else if
\* active ...), so a unique count never carries the expiration filter.
newCountEntriesQuery_Either(active, unique, timestamp) ==
    Query("select",
          IF unique THEN "COUNT(DISTINCT CONCAT(namespace, key))"
                    ELSE "COUNT(CONCAT(namespace, key))",
          FALSE,
          IF active /\ ~unique THEN <<GreaterThan("expiration", timestamp)>> ELSE <<>>,
          NoEntry)

newCountEntriesQuery(active, unique, timestamp) ==
    Query("select",
          IF unique THEN "COUNT(DISTINCT CONCAT(namespace, key))"
                    ELSE "COUNT(CONCAT(namespace, key))",
          FALSE,
          IF active THEN <<GreaterThan("expiration", timestamp)>> ELSE <<>>,
          NoEntry)

\* Faulty variant: expiration < timestamp instead of expiration <= timestamp.
newPruneEntriesQuery_Less(timestamp) ==
    Query("delete", "", FALSE, <<LessEqualThan("expiration", timestamp - 1)>>, NoEntry)

\* Faulty variant: the prune reaches one millisecond past its snapshot.
newPruneEntriesQuery_Next(timestamp) ==
    Query("delete", "", FALSE, <<LessEqualThan("expiration", timestamp + 1)>>, NoEntry)

newPruneEntriesQuery(timestamp) ==
    Query("delete", "", FALSE, <<LessEqualThan("expiration", timestamp)>>, NoEntry)

\* Faulty variant: the DELETE carries the WHERE clause of a prune at the newest
\* expiration an entry of time zero can have.
newClearEntriesQuery_Where ==
    Query("delete", "", FALSE, <<LessEqualThan("expiration", MaxTTL)>>, NoEntry)

newClearEntriesQuery ==
    Query("delete", "", FALSE, <<>>, NoEntry)

\* ---------------------------------------------------------------- the table
\* What SQLite does with a statement on the rows of table keybase.
Sat(e, c) ==
    CASE c.f = "eq" -> e[c.col] = c.str
      [] c.f = "like" -> Like(c.str, e[c.col])
      [] c.f = "gt" -> e.expiration > c.num
      [] c.f = "le" -> e.expiration <= c.num

Matches(e, where) == \A i \in DOMAIN where : Sat(e, where[i])

Selected(q, table) == SelectSeq(table, LAMBDA e : Matches(e, q.where))

Column(q, table, col) == [i \in DOMAIN Selected(q, table) |-> Selected(q, table)[i][col]]

Concat(q, table) ==
    [i \in DOMAIN Selected(q, table) |->
        Selected(q, table)[i].namespace \o Selected(q, table)[i].key]

\* The rows of a SELECT of one text column.
Rows(q, table) ==
    IF q.distinct THEN Dedup(Column(q, table, q.col)) ELSE Column(q, table, q.col)

\* The value of the single row of a SELECT COUNT(...).
Scalar(q, table) ==
    CASE q.col = "COUNT(key)" -> Len(Column(q, table, "key"))
      [] q.col = "COUNT(DISTINCT key)" -> Cardinality(Range(Column(q, table, "key")))
      [] q.col = "COUNT(DISTINCT namespace)" ->
            Cardinality(Range(Column(q, table, "namespace")))
      [] q.col = "COUNT(CONCAT(namespace, key))" -> Len(Concat(q, table))
      [] q.col = "COUNT(DISTINCT CONCAT(namespace, key))" ->
            Cardinality(Range(Concat(q, table)))

\* Faulty variant: the INSERT also rewrites the rows that hold the same
\* namespace and key (an upsert), which gives them the new expiration.
Applied_Upsert(q, table) ==
    CASE q.stmt = "insert" ->
            Append([i \in DOMAIN table |->
                       IF /\ table[i].namespace = q.entry.namespace
                          /\ table[i].key = q.entry.key
                       THEN q.entry ELSE table[i]],
                   q.entry)
      [] q.stmt = "delete" -> SelectSeq(table, LAMBDA e : ~Matches(e, q.where))
      [] q.stmt = "create" -> table

\* The table after an INSERT, a DELETE or a CREATE TABLE IF NOT EXISTS.
Applied(q, table) ==
    CASE q.stmt = "insert" -> Append(table, q.entry)
      [] q.stmt = "delete" -> SelectSeq(table, LAMBDA e : ~Matches(e, q.where))
      [] q.stmt = "create" -> table

Affected(q, table) ==
    IF q.stmt = "insert" THEN 1 ELSE Len(table) - Len(Applied(q, table))

\* ---------------------------------------------------------------- dbtx
\* Faulty variant: the context is looked at only after the statement has run.
queryExec_Late(q, table, done, fault) ==
    IF fault # "none" THEN [err |-> dbError("exec"), table |-> table, affected |-> 0]
    ELSE [err |-> IF done THEN dbError("context") ELSE nilError,
          table |-> Applied(q, table), affected |-> Affected(q, table)]

\* Faulty variant: a statement that fails has taken effect all the same.
queryExec_Partial(q, table, done, fault) ==
    IF done THEN [err |-> dbError("context"), table |-> table, affected |-> 0]
    ELSE IF fault # "none"
         THEN [err |-> dbError("exec"), table |-> Applied(q, table), affected |-> 0]
    ELSE [err |-> nilError, table |-> Applied(q, table), affected |-> Affected(q, table)]

\* database/sql refuses a call whose context is already done; otherwise the
\* statement runs as one SQLite statement: it takes effect in full or fails.
queryExec(q, table, done, fault) ==
    IF done THEN [err |-> dbError("context"), table |-> table, affected |-> 0]
    ELSE IF fault # "none" THEN [err |-> dbError("exec"), table |-> table, affected |-> 0]
    ELSE [err |-> nilError, table |-> Applied(q, table), affected |-> Affected(q, table)]

\* count := 0; QueryContext; if row.Next() { Scan(&count) }; return count, nil
queryCount(q, table, done, fault) ==
    IF done THEN [err |-> dbError("context"), count |-> 0, cut |-> FALSE]
    ELSE IF fault = "query" THEN [err |-> dbError("exec"), count |-> 0, cut |-> FALSE]
    ELSE IF fault = "rows" THEN [err |-> nilError, count |-> 0, cut |-> TRUE]
    ELSE IF fault = "shape" THEN [err |-> dbError("scan"), count |-> 0, cut |-> FALSE]
    ELSE [err |-> nilError, count |-> Scalar(q, table), cut |-> FALSE]

\* Faulty variant: a row that cannot be scanned is skipped.
queryValues_Skip(q, table, done, fault, n) ==
    IF done THEN [err |-> dbError("context"), values |-> <<>>, cut |-> FALSE]
    ELSE IF fault = "query" THEN [err |-> dbError("exec"), values |-> <<>>, cut |-> FALSE]
    ELSE IF fault = "rows" /\ n < Len(Rows(q, table))
         THEN [err |-> nilError, values |-> SubSeq(Rows(q, table), 1, n), cut |-> TRUE]
    ELSE IF fault = "shape" /\ Len(Rows(q, table)) > 0
         THEN [err |-> nilError, values |-> <<>>, cut |-> FALSE]
    ELSE [err |-> nilError, values |-> Rows(q, table), cut |-> FALSE]

\* values := []string{}; QueryContext; for rows.Next() { Scan; append };
\* return values, nil.  A stream that ends early after n rows ends the loop.
queryValues(q, table, done, fault, n) ==
    IF done THEN [err |-> dbError("context"), values |-> <<>>, cut |-> FALSE]
    ELSE IF fault = "query" THEN [err |-> dbError("exec"), values |-> <<>>, cut |-> FALSE]
    ELSE IF fault = "rows" /\ n < Len(Rows(q, table))
         THEN [err |-> nilError, values |-> SubSeq(Rows(q, table), 1, n), cut |-> TRUE]
    ELSE IF fault = "shape" /\ Len(Rows(q, table)) > 0
         THEN [err |-> dbError("scan"), values |-> <<>>, cut |-> FALSE]
    ELSE [err |-> nilError, values |-> Rows(q, table), cut |-> FALSE]

\* ---------------------------------------------------------------- mutex
\* sync.RWMutex: w is the goroutine that owns the writer side (it has called
\* Lock and keeps new readers out, whether or not the readers have drained),
\* r the number of read locks held.
NoProc == 0

\* Faulty variants: a reader does not wait for the writer; a writer does not wait
\* for the readers.
CanRLock_Always(m) == TRUE
Drained_Always(m) == TRUE

CanRLock(m) == m.w = NoProc
CanLock(m) == m.w = NoProc
Drained(m) == m.r = 0

\* ---------------------------------------------------------------- init
Init ==
    /\ log = <<>>
    /\ now = 0
    /\ ttl \in TTLs
    /\ mu = [w |-> NoProc, r |-> 0]
    /\ pc = [p \in Procs |-> "idle"]
    /\ op = [p \in Procs |-> "none"]
    /\ ts = [p \in Procs |-> 0]
    /\ ctx = [p \in Procs |-> "live"]
    /\ req = [p \in Procs |-> NoReq]
    /\ res = [p \in Procs |-> NoRes]
    /\ last = [p \in Procs |-> "none"]
    /\ tx = [p \in Procs |-> NoQuery]
    /\ db = defaultStorage
    /\ stored = <<>>


\* ---------------------------------------------------------------- results
\* if err != nil { return fmt.Errorf(...) }; return nil
execResult(name, out) ==
    [NoRes EXCEPT !.err = IF out.err.nil THEN nilError ELSE Errorf(name, out.err),
                  !.affected = out.affected]

\* if err != nil { return nil, fmt.Errorf(...) }; return keys, nil
listResult(name, out) ==
    IF out.err.nil
    THEN [NoRes EXCEPT !.values = out.values, !.cut = out.cut]
    ELSE [NoRes EXCEPT !.err = Errorf(name, out.err)]

\* Faulty variant: the count of queryCount is passed on with the error.
countResult_Passed(name, out) ==
    IF out.err.nil
    THEN [NoRes EXCEPT !.count = out.count, !.cut = out.cut]
    ELSE [NoRes EXCEPT !.err = Errorf(name, out.err), !.count = out.count]

\* if err != nil { return invalidCount, fmt.Errorf(...) }; return count, nil
countResult(name, out) ==
    IF out.err.nil
    THEN [NoRes EXCEPT !.count = out.count, !.cut = out.cut]
    ELSE [NoRes EXCEPT !.err = Errorf(name, out.err), !.count = invalidCount]

Request(namespace, key, active, unique) ==
    [namespace |-> namespace, key |-> key, active |-> active, unique |-> unique]

Done(p) == ctx[p] # "live"

\* The Puts that have read the clock and not yet run their INSERT.
PendingPuts == {p \in Procs : op[p] = "Put" /\ pc[p] \in {"lock", "drain", "exec"}}

\* ---------------------------------------------------------------- steps
\* The clock advances.
Tick ==
    /\ now < MaxTime
    /\ now' = now + 1
    /\ UNCHANGED <<db, stored, tx, log, ttl, mu, pc, op, ts, ctx, req, res, last>>

\* The first line of a method: Put computes time.Now().Add(k.ttl).UnixMilli(),
\* every other method time.Now().UnixMilli().  c tells whether the context
\* handed in is already done.
Snapshot(p, o, c) ==
    /\ pc[p] = "idle"
    /\ o = "Put" => Len(log) + Cardinality(PendingPuts) < MaxLog
    /\ op' = [op EXCEPT ![p] = o]
    /\ ts' = [ts EXCEPT ![p] = IF o = "Put" THEN now + ttl
                               ELSE IF o = "ClearEntries" THEN 0 ELSE now]
    /\ ctx' = [ctx EXCEPT ![p] = c]
    /\ pc' = [pc EXCEPT ![p] = "lock"]
    /\ last' = [last EXCEPT ![p] = "none"]
    /\ UNCHANGED <<db, stored, tx, log, now, ttl, mu, req, res>>

\* The context of a call is cancelled or times out while the call waits for
\* k.mu (a context that ends between the lock and the query has the same
\* effect: the query finds it done).
Cancel(p) ==
    /\ pc[p] \in {"lock", "drain"}
    /\ ctx[p] = "live"
    /\ ctx' = [ctx EXCEPT ![p] = "cancelled"]
    /\ UNCHANGED <<db, stored, tx, log, now, ttl, mu, pc, op, ts, req, res, last>>

\* Faulty variant: the clock is read again once the lock is held.
RLock_Reread(p) ==
    /\ pc[p] = "lock"
    /\ op[p] \in ReadOps
    /\ CanRLock(mu)
    /\ mu' = [mu EXCEPT !.r = @ + 1]
    /\ pc' = [pc EXCEPT ![p] = "exec"]
    /\ ts' = [ts EXCEPT ![p] = now]
    /\ UNCHANGED <<db, stored, tx, log, now, ttl, op, ctx, req, res, last>>

\* k.mu.RLock()
RLock(p) ==
    /\ pc[p] = "lock"
    /\ op[p] \in ReadOps
    /\ CanRLock(mu)
    /\ mu' = [mu EXCEPT !.r = @ + 1]
    /\ pc' = [pc EXCEPT ![p] = "exec"]
    /\ UNCHANGED <<db, stored, tx, log, now, ttl, op, ts, ctx, req, res, last>>

\* k.mu.Lock(), first half: take the writer side, which keeps new readers out.
Lock(p) ==
    /\ pc[p] = "lock"
    /\ op[p] \in WriteOps
    /\ CanLock(mu)
    /\ mu' = [mu EXCEPT !.w = p]
    /\ pc' = [pc EXCEPT ![p] = "drain"]
    /\ UNCHANGED <<db, stored, tx, log, now, ttl, op, ts, ctx, req, res, last>>

\* k.mu.Lock(), second half: the read locks held before are released.
LockAcquired(p) ==
    /\ pc[p] = "drain"
    /\ Drained(mu)
    /\ pc' = [pc EXCEPT ![p] = "exec"]
    /\ UNCHANGED <<db, stored, tx, log, now, ttl, mu, op, ts, ctx, req, res, last>>

\* The body of a method that writes: run the statement, compute the error.
Write(p, name, request, q, fault) ==
    /\ pc[p] = "exec"
    /\ op[p] = name
    /\ LET out == queryExec(q, log, Done(p), fault)
       IN /\ log' = out.table
          /\ res' = [res EXCEPT ![p] = execResult(name, out)]
    /\ req' = [req EXCEPT ![p] = request]
    /\ tx' = [tx EXCEPT ![p] = q]
    /\ pc' = [pc EXCEPT ![p] = "ret"]
    /\ UNCHANGED <<db, stored, now, ttl, mu, op, ts, ctx, last>>

\* The body of a method that returns a count.
ReadCount(p, name, request, q, fault) ==
    /\ pc[p] = "exec"
    /\ op[p] = name
    /\ res' = [res EXCEPT ![p] = countResult(name, queryCount(q, log, Done(p), fault))]
    /\ req' = [req EXCEPT ![p] = request]
    /\ tx' = [tx EXCEPT ![p] = q]
    /\ pc' = [pc EXCEPT ![p] = "ret"]
    /\ UNCHANGED <<db, stored, log, now, ttl, mu, op, ts, ctx, last>>

\* Faulty variant: a list read drops the entries its snapshot finds stale.
ReadList_Evict(p, name, request, q, fault, n) ==
    /\ pc[p] = "exec"
    /\ op[p] = name
    /\ res' = [res EXCEPT ![p] = listResult(name, queryValues(q, log, Done(p), fault, n))]
    /\ log' = SelectSeq(log, LAMBDA e : e.expiration > ts[p])
    /\ req' = [req EXCEPT ![p] = request]
    /\ tx' = [tx EXCEPT ![p] = q]
    /\ pc' = [pc EXCEPT ![p] = "ret"]
    /\ UNCHANGED <<db, stored, now, ttl, mu, op, ts, ctx, last>>

\* The body of a method that returns a list.
ReadList(p, name, request, q, fault, n) ==
    /\ pc[p] = "exec"
    /\ op[p] = name
    /\ res' = [res EXCEPT ![p] = listResult(name, queryValues(q, log, Done(p), fault, n))]
    /\ req' = [req EXCEPT ![p] = request]
    /\ tx' = [tx EXCEPT ![p] = q]
    /\ pc' = [pc EXCEPT ![p] = "ret"]
    /\ UNCHANGED <<db, stored, log, now, ttl, mu, op, ts, ctx, last>>

Put(p, in) ==
    \E namespace \in in.namespaces, key \in in.keys, fault \in in.faults \cap {"none", "query"} :
        Write(p, "Put", Request(namespace, key, FALSE, FALSE),
              newPutQuery(namespace, key, ts[p]), fault)

MatchKey(p, in) ==
    \E namespace \in in.namespaces, pattern \in in.patterns, active \in in.active,
       unique \in in.unique, fault \in in.faults, n \in in.cuts :
        ReadList(p, "MatchKey", Request(namespace, pattern, active, unique),
                 newMatchKeyQuery(namespace, pattern, active, unique, ts[p]), fault, n)

CountKey(p, in) ==
    \E namespace \in in.namespaces, key \in in.keys, active \in in.active,
       fault \in in.faults :
        ReadCount(p, "CountKey", Request(namespace, key, active, FALSE),
                  newCountKeyQuery(namespace, key, active, ts[p]), fault)

GetKeys(p, in) ==
    \E namespace \in in.namespaces, active \in in.active, unique \in in.unique,
       fault \in in.faults, n \in in.cuts :
        ReadList(p, "GetKeys", Request(namespace, <<>>, active, unique),
                 newGetKeysQuery(namespace, active, unique, ts[p]), fault, n)

CountKeys(p, in) ==
    \E namespace \in in.namespaces, active \in in.active, unique \in in.unique,
       fault \in in.faults :
        ReadCount(p, "CountKeys", Request(namespace, <<>>, active, unique),
                  newCountKeysQuery(namespace, active, unique, ts[p]), fault)

GetNamespaces(p, in) ==
    \E active \in in.active, fault \in in.faults, n \in in.cuts :
        ReadList(p, "GetNamespaces", Request(<<>>, <<>>, active, FALSE),
                 newGetNamespacesQuery(active, ts[p]), fault, n)

CountNamespaces(p, in) ==
    \E active \in in.active, fault \in in.faults :
        ReadCount(p, "CountNamespaces", Request(<<>>, <<>>, active, FALSE),
                  newCountNamespacesQuery(active, ts[p]), fault)

CountEntries(p, in) ==
    \E active \in in.active, unique \in in.unique, fault \in in.faults :
        ReadCount(p, "CountEntries", Request(<<>>, <<>>, active, unique),
                  newCountEntriesQuery(active, unique, ts[p]), fault)

PruneEntries(p, in) ==
    \E fault \in in.faults \cap {"none", "query"} :
        Write(p, "PruneEntries", NoReq, newPruneEntriesQuery(ts[p]), fault)

\* The method of the tests' keybase.ClearEntries(ctx): the exclusive lock
\* around newClearEntriesQuery().queryExec.
ClearEntries(p, in) ==
    \E fault \in in.faults \cap {"none", "query"} :
        Write(p, "ClearEntries", NoReq, newClearEntriesQuery, fault)

\* Faulty variant: a write method returns its error before it unlocks.
Unlocked_WriterKept(m, o, failed) ==
    IF o \in ReadOps THEN [m EXCEPT !.r = @ - 1]
    ELSE IF failed THEN m ELSE [m EXCEPT !.w = NoProc]

\* defer k.mu.RUnlock() / defer k.mu.Unlock(), then the caller has the values.
\* Faulty variant: the unlock is written after the error check instead of deferred.
Unlocked_OnSuccess(m, o, failed) ==
    IF failed THEN m
    ELSE IF o \in ReadOps THEN [m EXCEPT !.r = @ - 1] ELSE [m EXCEPT !.w = NoProc]

\* The unlock is deferred: it runs whether or not the call failed.
Unlocked(m, o, failed) ==
    IF o \in ReadOps THEN [m EXCEPT !.r = @ - 1] ELSE [m EXCEPT !.w = NoProc]

Return(p) ==
    /\ pc[p] = "ret"
    /\ mu' = Unlocked(mu, op[p], ~res[p].err.nil)
    /\ last' = [last EXCEPT ![p] = IF res[p].err.nil THEN "ok" ELSE "error"]
    /\ pc' = [pc EXCEPT ![p] = "idle"]
    /\ op' = [op EXCEPT ![p] = "none"]
    /\ ts' = [ts EXCEPT ![p] = 0]
    /\ req' = [req EXCEPT ![p] = NoReq]
    /\ res' = [res EXCEPT ![p] = NoRes]
    /\ tx' = [tx EXCEPT ![p] = NoQuery]
    /\ UNCHANGED <<db, stored, log, now, ttl, ctx>>

\* sql.Open and db.Ping: a path that is no database file cannot be opened.
sqlOpen(dataSourceName) ==
    [err |-> IF dataSourceName = Dir THEN dbError("open") ELSE nilError,
     db |-> dataSourceName]

\* Open(ctx, opts...): a database in memory starts empty, a database file holds
\* the rows its last Close left; the table is created if it is not there.
\* An error returns no Keybase.
OpenWith(p, opts, c, fault) ==
    /\ db = NoDB
    /\ pc[p] = "idle"
    /\ LET config == parseOptions(opts)
           conn == sqlOpen(config.storage)
           found == IF config.storage = File THEN stored ELSE <<>>
           out == queryExec(newCreateTableQuery, found, c # "live", fault)
       IN IF conn.err.nil /\ out.err.nil
          THEN /\ db' = conn.db
               /\ ttl' = config.ttl
               /\ log' = out.table
               /\ mu' = [w |-> NoProc, r |-> 0]
               /\ last' = [last EXCEPT ![p] = "ok"]
          ELSE /\ last' = [last EXCEPT ![p] = "error"]
               /\ UNCHANGED <<db, ttl, log, mu>>
    /\ UNCHANGED <<stored, tx, now, pc, op, ts, ctx, req, res>>

Open(p, in) ==
    \E opts \in OptionLists(in.options), c \in in.contexts,
       fault \in in.faults \cap {"none", "query"} :
        OpenWith(p, opts, c, fault)

\* Close(): k.db.Close(), called when no call is in flight.  The rows of a
\* database file stay in the file, the rows of a database in memory are lost.
Close(p) ==
    /\ db # NoDB
    /\ \A q \in Procs : pc[q] = "idle"
    /\ stored' = IF db = File THEN log ELSE stored
    /\ log' = <<>>
    /\ db' = NoDB
    /\ last' = [last EXCEPT ![p] = "none"]
    /\ UNCHANGED <<tx, now, ttl, mu, pc, op, ts, ctx, req, res>>

\* The inputs of the calls: every argument value and every collaborator
\* outcome for one caller; one value of each argument, and a collaborator that
\* answers, for callers that run concurrently.
AllInputs ==
    [namespaces |-> Namespaces, keys |-> Keys, patterns |-> Patterns,
     active |-> BOOLEAN, unique |-> BOOLEAN, faults |-> Faults, cuts |-> 0..(MaxLog - 1),
     contexts |-> {"live", "expired"}]

FewInputs ==
    [namespaces |-> {<<"a">>}, keys |-> {<<"c">>}, patterns |-> {<<"*">>},
     active |-> {TRUE}, unique |-> {FALSE}, faults |-> {"none"}, cuts |-> {0},
     contexts |-> {"live", "expired"}]

Step(p, in) ==
    \/ \E o \in Ops, c \in in.contexts : Snapshot(p, o, c)
    \/ Cancel(p)
    \/ RLock(p)
    \/ Lock(p)
    \/ LockAcquired(p)
    \/ Put(p, in)
    \/ MatchKey(p, in)
    \/ CountKey(p, in)
    \/ GetKeys(p, in)
    \/ CountKeys(p, in)
    \/ GetNamespaces(p, in)
    \/ CountNamespaces(p, in)
    \/ CountEntries(p, in)
    \/ PruneEntries(p, in)
    \/ ClearEntries(p, in)
    \/ Return(p)

\* One caller at a time, every input.
Caller == 1

Next == Tick \/ Step(Caller, AllInputs)

Spec == Init /\ [][Next]_vars

\* Concurrent callers.
NextConc == Tick \/ \E p \in Procs : Step(p, FewInputs)

SpecConc == Init /\ [][NextConc]_vars

\* Pattern matching on a table of up to MatchLen entries, put into one
\* namespace at clock values up to now by a store with TTL ttl.
MatchEntries(t, d) ==
    [namespace : {<<"a">>}, key : MatchKeys, expiration : {t0 + d : t0 \in 0..t}]

InitMatch ==
    /\ now \in 0..MaxTime
    /\ ttl \in TTLs
    /\ log \in UNION {[1..n -> MatchEntries(now, ttl)] : n \in 0..MatchLen}
    /\ mu = [w |-> NoProc, r |-> 0]
    /\ pc = [p \in Procs |-> "idle"]
    /\ op = [p \in Procs |-> "none"]
    /\ ts = [p \in Procs |-> 0]
    /\ ctx = [p \in Procs |-> "live"]
    /\ req = [p \in Procs |-> NoReq]
    /\ res = [p \in Procs |-> NoRes]
    /\ last = [p \in Procs |-> "none"]
    /\ tx = [p \in Procs |-> NoQuery]
    /\ db = defaultStorage
    /\ stored = <<>>

MatchInputs ==
    [namespaces |-> Namespaces, keys |-> MatchKeys, patterns |-> MatchPatterns,
     active |-> BOOLEAN, unique |-> BOOLEAN, faults |-> {"none"}, cuts |-> {0},
     contexts |-> {"live"}]

NextMatch ==
    \/ Snapshot(Caller, "MatchKey", "live")
    \/ RLock(Caller)
    \/ MatchKey(Caller, MatchInputs)
    \/ Return(Caller)

SpecMatch == InitMatch /\ [][NextMatch]_vars

\* MatchKey with patterns that hold no `*` and no `?`, over keys that hold
\* the characters LIKE treats specially: `_`, `%` and a letter in upper case.
LiteralKeys == {<<"c", "_">>, <<"c", "0">>, <<"C", "0">>, <<"%">>}
LiteralPatterns == {<<"c", "_">>, <<"c", "0">>, <<"%">>}

LiteralEntries(t, d) ==
    [namespace : {<<"a">>}, key : LiteralKeys, expiration : {t0 + d : t0 \in 0..t}]

InitLiteral ==
    /\ now \in 0..MaxTime
    /\ ttl \in TTLs
    /\ log \in UNION {[1..n -> LiteralEntries(now, ttl)] : n \in 0..MatchLen}
    /\ mu = [w |-> NoProc, r |-> 0]
    /\ pc = [p \in Procs |-> "idle"]
    /\ op = [p \in Procs |-> "none"]
    /\ ts = [p \in Procs |-> 0]
    /\ ctx = [p \in Procs |-> "live"]
    /\ req = [p \in Procs |-> NoReq]
    /\ res = [p \in Procs |-> NoRes]
    /\ last = [p \in Procs |-> "none"]
    /\ tx = [p \in Procs |-> NoQuery]
    /\ db = defaultStorage
    /\ stored = <<>>

LiteralInputs ==
    [namespaces |-> Namespaces, keys |-> LiteralKeys, patterns |-> LiteralPatterns,
     active |-> BOOLEAN, unique |-> BOOLEAN, faults |-> {"none"}, cuts |-> {0},
     contexts |-> {"live"}]

NextLiteral ==
    \/ Snapshot(Caller, "MatchKey", "live")
    \/ RLock(Caller)
    \/ MatchKey(Caller, LiteralInputs)
    \/ Return(Caller)

SpecLiteral == InitLiteral /\ [][NextLiteral]_vars

\* A store that is opened, used, closed and opened again, on a database file
\* or in memory.  The methods are called between Open and Close.
InitStore ==
    /\ log = <<>>
    /\ now = 0
    /\ ttl = defaultTTL
    /\ mu = [w |-> NoProc, r |-> 0]
    /\ pc = [p \in Procs |-> "idle"]
    /\ op = [p \in Procs |-> "none"]
    /\ ts = [p \in Procs |-> 0]
    /\ ctx = [p \in Procs |-> "live"]
    /\ req = [p \in Procs |-> NoReq]
    /\ res = [p \in Procs |-> NoRes]
    /\ last = [p \in Procs |-> "none"]
    /\ tx = [p \in Procs |-> NoQuery]
    /\ db = NoDB
    /\ stored = <<>>

StoreInputs ==
    [namespaces |-> Namespaces, keys |-> Keys, patterns |-> {<<"*">>},
     active |-> {TRUE}, unique |-> {TRUE}, faults |-> {"none"}, cuts |-> {0},
     contexts |-> {"live"},
     options |-> {WithStorage(File), WithStorage(defaultStorage), WithStorage(Dir),
                 WithTTL(MaxTTL)}]

NextStore ==
    \/ Tick
    \/ Open(Caller, StoreInputs)
    \/ Close(Caller)
    \/ db # NoDB /\ \E o \in {"Put", "CountEntries"} : Snapshot(Caller, o, "live")
    \/ RLock(Caller)
    \/ Lock(Caller)
    \/ LockAcquired(Caller)
    \/ Put(Caller, StoreInputs)
    \/ CountEntries(Caller, StoreInputs)
    \/ Return(Caller)

SpecStore == InitStore /\ [][NextStore]_vars

\* A store opened with ttl options, in memory or on the database file.
TTLInputs ==
    [namespaces |-> {<<"a">>}, keys |-> {<<"c">>}, patterns |-> {<<"*">>},
     active |-> {TRUE}, unique |-> {FALSE}, faults |-> {"none", "query"}, cuts |-> {0},
     contexts |-> {"live", "expired"},
     options |-> {WithTTL(MaxTTL), WithTTL(MaxTTL + 1), WithStorage(File)}]

NextTTL ==
    \/ Tick
    \/ Open(Caller, TTLInputs)
    \/ Close(Caller)
    \/ db # NoDB /\ \E c \in TTLInputs.contexts : Snapshot(Caller, "Put", c)
    \/ Lock(Caller)
    \/ LockAcquired(Caller)
    \/ Put(Caller, TTLInputs)
    \/ Return(Caller)

SpecTTL == InitStore /\ [][NextTTL]_vars

\* Callers that keep calling, concurrently, under a fair scheduler: every
\* method, a collaborator that answers or refuses, contexts that stay live.
LiveInputs ==
    [namespaces |-> {<<"a">>}, keys |-> {<<"c">>}, patterns |-> {<<"*">>},
     active |-> {TRUE}, unique |-> {FALSE}, faults |-> {"none", "query"}, cuts |-> {0},
     contexts |-> {"live"}]

\* The methods called: the three that write, a read that returns a list and a
\* read that returns a count (every read method locks as these two do).
LiveOps == WriteOps \cup {"MatchKey", "CountEntries"}

\* The caller p calls a method.
Invoke(p) == \E o \in LiveOps : Snapshot(p, o, "live")

\* The body of the method p is in: the collaborator call returns.
Exec(p) ==
    \/ Put(p, LiveInputs)
    \/ MatchKey(p, LiveInputs)
    \/ CountEntries(p, LiveInputs)
    \/ PruneEntries(p, LiveInputs)
    \/ ClearEntries(p, LiveInputs)

NextLive ==
    \E p \in Procs :
        \/ Invoke(p)
        \/ RLock(p)
        \/ Lock(p)
        \/ LockAcquired(p)
        \/ Exec(p)
        \/ Return(p)

\* The scheduler runs every goroutine that can run, every collaborator call
\* returns, and sync.RWMutex starves nobody: Unlock admits the readers that
\* wait before a later writer gets in, and the writers queue on a sync.Mutex,
\* which hands itself to a waiter that has waited long.  A caller is under no
\* obligation to call.
Fairness ==
    \A p \in Procs :
        /\ SF_vars(RLock(p))
        /\ SF_vars(Lock(p))
        /\ WF_vars(LockAcquired(p))
        /\ WF_vars(Exec(p))
        /\ WF_vars(Return(p))

\* The clock stands still here, so one TTL stands for all.
InitLive == Init /\ ttl = MaxTTL

SpecLive == InitLive /\ [][NextLive]_vars /\ Fairness

\* ================================================================ properties
\* The step of p that runs the statement of method name.
Ran(p, name) == pc[p] = "exec" /\ op[p] = name /\ pc'[p] = "ret"

\* p's collaborator call answered in full and p has its return values.
Answered(p) == pc[p] = "ret" /\ res[p].err.nil /\ ~res[p].cut

\* The entries of the log that a read of p is about, by position.
Scope(p) ==
    {i \in DOMAIN log :
        CASE op[p] = "MatchKey" ->
                /\ log[i].namespace = req[p].namespace
                /\ Like(ReplaceAll(ReplaceAll(req[p].key, "*", "%"), "?", "_"), log[i].key)
          [] op[p] = "CountKey" ->
                log[i].namespace = req[p].namespace /\ log[i].key = req[p].key
          [] op[p] \in {"GetKeys", "CountKeys"} -> log[i].namespace = req[p].namespace
          [] OTHER -> TRUE}

\* Those of them the read considers: all, or only the active ones.
Considered(p) == {i \in Scope(p) : req[p].active => log[i].expiration > ts[p]}

Projected(p, e) ==
    CASE op[p] \in {"GetNamespaces", "CountNamespaces"} -> e.namespace
      [] op[p] = "CountEntries" -> e.namespace \o e.key
      [] OTHER -> e.key

Collapses(p) ==
    \/ op[p] \in {"GetNamespaces", "CountNamespaces"}
    \/ op[p] # "CountKey" /\ req[p].unique

ValuesOf(p) == {Projected(p, log[i]) : i \in Considered(p)}

SizeOf(p) == IF Collapses(p) THEN Cardinality(ValuesOf(p)) ELSE Cardinality(Considered(p))

\* A read that was answered in full reports the considered entries, no more
\* and no fewer.
ReadAgrees(p) ==
    /\ op[p] \in CountOps => res[p].count = SizeOf(p)
    /\ op[p] \in ListOps => Range(res[p].values) = ValuesOf(p) /\ Len(res[p].values) = SizeOf(p)

Occurrences(l, N, K) == Cardinality({i \in DOMAIN l : l[i].namespace = N /\ l[i].key = K})

KeysIn(l, N) == {l[i].key : i \in {j \in DOMAIN l : l[j].namespace = N}}

\* ---------------------------------------------------------------- C1
PutAddsOne(p) ==
    Ran(p, "Put") /\ res'[p].err.nil =>
        /\ Len(log') = Len(log) + 1
        /\ \A N \in Namespaces, K \in Keys :
              Occurrences(log', N, K) =
                  Occurrences(log, N, K)
                  + (IF N = req'[p].namespace /\ K = req'[p].key THEN 1 ELSE 0)

CountsOccurrences(p) ==
    /\ op[p] = "CountKey" /\ ~req[p].active =>
          res[p].count = Occurrences(log, req[p].namespace, req[p].key)
    /\ op[p] = "CountKeys" /\ ~req[p].active /\ req[p].unique =>
          res[p].count = Cardinality(KeysIn(log, req[p].namespace))
    /\ op[p] = "GetKeys" /\ ~req[p].active /\ req[p].unique =>
          \A K \in KeysIn(log, req[p].namespace) :
              Cardinality({i \in DOMAIN res[p].values : res[p].values[i] = K}) = 1

\* C1: every successful Put(N, K) adds exactly one entry and leaves the others
\* in place, so the non-unique count of K in N grows by one with each Put
\* (two Puts give 2); CountKey reports the number of entries of K in N, and a
\* unique count or list of the keys of N counts K once however often it was put.
C1_InsertionAccumulates ==
    /\ [][\A p \in Procs : PutAddsOne(p)]_vars
    /\ [](\A p \in Procs : Answered(p) => CountsOccurrences(p))

C1_Witness ==
    \E p \in Procs :
        /\ Answered(p) /\ op[p] = "CountKey" /\ res[p].count = 2
        /\ Len(log) = 2 /\ log[1].key = log[2].key /\ log[1].namespace = log[2].namespace

\* ---------------------------------------------------------------- C2
ExpiresAfterTTL(p) ==
    /\ (pc[p] = "idle" /\ pc'[p] = "lock" /\ op'[p] = "Put") => ts'[p] = now + ttl
    /\ (Ran(p, "Put") /\ res'[p].err.nil) => log'[Len(log')].expiration = ts[p]

\* C2: an entry put at clock value t0 by a store with TTL d carries expiration
\* t0 + d; a read with active = true and snapshot T reports it iff
\* expiration > T (T < t0 + d), a read with active = false reports it at any T
\* while it is in the log.
C2_ActiveFilter ==
    /\ [][\A p \in Procs : ExpiresAfterTTL(p)]_vars
    /\ [](\A p \in Procs : Answered(p) /\ op[p] \in ReadOps => ReadAgrees(p))

C2_Witness ==
    \E p \in Procs :
        /\ Answered(p) /\ op[p] = "CountEntries" /\ req[p].active /\ ~req[p].unique
        /\ Len(log) = 2 /\ log[1].expiration = ts[p] /\ log[2].expiration > ts[p]
        /\ res[p].count = 1

\* ---------------------------------------------------------------- C3
Unexpired(l, T) == SelectSeq(l, LAMBDA e : e.expiration > T)

PruneKeepsUnexpired(p) ==
    /\ (pc[p] = "idle" /\ pc'[p] = "lock" /\ op'[p] = "PruneEntries") => ts'[p] = now
    /\ (Ran(p, "PruneEntries") /\ res'[p].err.nil) => log' = Unexpired(log, ts[p])

\* C3: a successful PruneEntries with call-time snapshot T leaves exactly the
\* entries with expiration > T, in their order, and removes every entry with
\* expiration <= T; CountEntries(active = false, unique = false) reports the
\* number of entries in the log, so after the prune the number that had not
\* expired.
C3_PruneRemovesOnlyStale ==
    /\ [][\A p \in Procs : PruneKeepsUnexpired(p)]_vars
    /\ [](\A p \in Procs :
            Answered(p) /\ op[p] = "CountEntries" /\ ~req[p].active /\ ~req[p].unique
                => res[p].count = Len(log))

C3_Witness ==
    \E p \in Procs :
        /\ pc[p] = "ret" /\ op[p] = "PruneEntries" /\ res[p].err.nil
        /\ res[p].affected = 1 /\ Len(log) = 1 /\ log[1].expiration = ts[p] + 1

\* ---------------------------------------------------------------- C4
ClearRemovesAll(p) ==
    /\ (Ran(p, "ClearEntries") /\ res'[p].err.nil) => log' = <<>>
    /\ (Ran(p, "Put") /\ res'[p].err.nil /\ log = <<>>) => Len(log') = 1

\* C4: ClearEntries runs with the exclusive lock held and, when it succeeds,
\* leaves the log empty whatever the expirations of the entries were, so that
\* CountEntries(active = false, unique = false) is 0 after it and 1 after one
\* more Put.
C4_ClearRemovesAll ==
    /\ [][\A p \in Procs : ClearRemovesAll(p)]_vars
    /\ [](\A p \in Procs :
            /\ (op[p] = "ClearEntries" /\ pc[p] \in {"exec", "ret"}) => mu = [w |-> p, r |-> 0]
            /\ (Answered(p) /\ op[p] = "CountEntries" /\ ~req[p].active /\ ~req[p].unique
                /\ log = <<>>) => res[p].count = 0
            /\ (Answered(p) /\ op[p] = "CountEntries" /\ ~req[p].active /\ ~req[p].unique
                /\ Len(log) = 1) => res[p].count = 1)

C4_Witness ==
    \E p \in Procs :
        /\ pc[p] = "ret" /\ op[p] = "ClearEntries" /\ res[p].err.nil
        /\ res[p].affected = 2 /\ now = 0 /\ log = <<>>

\* ---------------------------------------------------------------- C5
Timestamps == 0..(MaxTime + MaxTTL)

SameReads(l1, l2, N) ==
    \A active \in BOOLEAN, unique \in BOOLEAN, T \in Timestamps :
        /\ \A pattern \in Patterns :
              Rows(newMatchKeyQuery(N, pattern, active, unique, T), l1) =
              Rows(newMatchKeyQuery(N, pattern, active, unique, T), l2)
        /\ \A K \in Keys :
              Scalar(newCountKeyQuery(N, K, active, T), l1) =
              Scalar(newCountKeyQuery(N, K, active, T), l2)
        /\ Rows(newGetKeysQuery(N, active, unique, T), l1) =
           Rows(newGetKeysQuery(N, active, unique, T), l2)
        /\ Scalar(newCountKeysQuery(N, active, unique, T), l1) =
           Scalar(newCountKeysQuery(N, active, unique, T), l2)

\* C5: a Put into namespace M changes the answer of no read scoped to another
\* namespace N (MatchKey, CountKey, GetKeys, CountKeys), whatever its pattern
\* or key, its flags and its snapshot.
C5_NamespaceIsolation ==
    [][\A p \in Procs :
          Ran(p, "Put") =>
              \A N \in Namespaces \ {req'[p].namespace} : SameReads(log, log', N)]_vars

C5_Witness ==
    \E p \in Procs :
        /\ pc[p] = "ret" /\ op[p] = "Put" /\ res[p].err.nil
        /\ Len(log) = 2 /\ log[1].namespace # log[2].namespace
        /\ log[2].namespace = req[p].namespace

\* ---------------------------------------------------------------- C6
Holding(p) == pc[p] \in {"exec", "ret"}

WritersHolding == {p \in Procs : Holding(p) /\ op[p] \in WriteOps}

ReadersHolding == {p \in Procs : Holding(p) /\ op[p] \in ReadOps}

\* C6: at most one of Put, PruneEntries, ClearEntries holds k.mu at a time,
\* and while one holds it no read method holds it.
C6_WriterExclusion ==
    /\ Cardinality(WritersHolding) <= 1
    /\ WritersHolding # {} => ReadersHolding = {}

\* Two read methods hold k.mu at the same time.
C6_Witness == Cardinality(ReadersHolding) >= 2

\* ---------------------------------------------------------------- C7
WholeWrites(p) ==
    /\ Ran(p, "PruneEntries") =>
          \/ log' = log /\ ~res'[p].err.nil
          \/ \A i \in DOMAIN log' : log'[i].expiration > ts[p]
    /\ Ran(p, "ClearEntries") => (log' = log /\ ~res'[p].err.nil) \/ log' = <<>>

\* C7: the log changes only in the step of a writer that holds k.mu alone, a
\* bulk delete removes all its rows in that one step, the log does not change
\* while a read holds k.mu, and the values a read returns are those of the
\* whole log as the last writer left it.
C7_AtomicVisibility ==
    /\ [][\A p \in Procs : WholeWrites(p)]_vars
    /\ [][log' # log =>
            \E p \in Procs : pc[p] = "exec" /\ op[p] \in WriteOps /\ pc'[p] = "ret"
                             /\ mu = [w |-> p, r |-> 0]]_vars
    /\ [](\A p \in Procs : Answered(p) /\ op[p] \in ReadOps => ReadAgrees(p))

C7_Witness ==
    \E p \in Procs, q \in Procs :
        /\ Answered(p) /\ op[p] = "CountEntries" /\ res[p].count = 1 /\ Len(log) = 1
        /\ pc[q] = "idle" /\ last[q] = "ok" /\ now = MaxTime

\* ---------------------------------------------------------------- C8
\* C8: a call whose context was done when it was made returns an error, and
\* the log after its statement is the log before it (for Put, PruneEntries and
\* ClearEntries as for the reads), with every entry of earlier calls in it.
C8_CancelledCallHasNoEffect ==
    [][\A p \in Procs :
          (pc[p] = "exec" /\ pc'[p] = "ret" /\ ctx[p] = "expired") =>
              ~res'[p].err.nil /\ log' = log]_vars

C8_Witness ==
    \E p \in Procs :
        /\ pc[p] = "ret" /\ op[p] = "PruneEntries" /\ ctx[p] = "expired"
        /\ ~res[p].err.nil /\ Len(log) = 1 /\ log[1].expiration <= ts[p]

\* ---------------------------------------------------------------- C9
WriterOf == {p \in Procs : op[p] \in WriteOps /\ pc[p] \in {"drain", "exec", "ret"}}

\* C9: k.mu is held by exactly the calls that are between their lock and
\* their return: a call that has returned, with or without an error, holds
\* neither side of it, and no side is released more often than it was taken.
C9_LockReleased ==
    /\ mu.r = Cardinality(ReadersHolding)
    /\ mu.w = NoProc <=> WriterOf = {}
    /\ \A p \in WriterOf : mu.w = p
    /\ \A p \in Procs : pc[p] = "idle" => mu.w # p

\* A call whose context was cancelled while it waited for k.mu has returned
\* its error and the mutex is free.
C9_Witness ==
    \E p \in Procs :
        /\ pc[p] = "idle" /\ last[p] = "error" /\ ctx[p] = "cancelled"
        /\ mu = [w |-> NoProc, r |-> 0]
        /\ \A q \in Procs : pc[q] = "idle"

\* ---------------------------------------------------------------- C10
\* C10: a count method returns -1 exactly when it returns an error, and a
\* count >= 0 with a nil error.
C10_CountSentinel ==
    \A p \in Procs :
        pc[p] = "ret" /\ op[p] \in CountOps =>
            /\ res[p].count = invalidCount <=> ~res[p].err.nil
            /\ res[p].err.nil => res[p].count >= 0

C10_Witness ==
    \E p \in Procs :
        /\ pc[p] = "ret" /\ op[p] = "CountKey" /\ ~res[p].err.nil
        /\ res[p].count = invalidCount /\ log # <<>>

\* ---------------------------------------------------------------- C11
\* A glob pattern: `*` stands for any run of characters, the empty run
\* included, every other character for itself.
RECURSIVE StarMatch(_, _)
StarMatch(pat, s) ==
    IF pat = <<>> THEN s = <<>>
    ELSE IF Head(pat) = "*"
         THEN StarMatch(Tail(pat), s) \/ (s # <<>> /\ StarMatch(pat, Tail(s)))
    ELSE s # <<>> /\ Head(pat) = Head(s) /\ StarMatch(Tail(pat), Tail(s))

\* The considered entries of the namespace whose key matches the pattern.
Matching(p) ==
    {i \in DOMAIN log :
        /\ log[i].namespace = req[p].namespace
        /\ req[p].active => log[i].expiration > ts[p]
        /\ StarMatch(req[p].key, log[i].key)}

Times(seq, v) == Cardinality({i \in DOMAIN seq : seq[i] = v})

\* C11: MatchKey(N, pattern, active, unique) returns the keys of the
\* considered entries of N whose key matches the pattern, `*` matching any
\* run of characters and the empty run: with unique = false one element for
\* each matching entry (key0, key0, key1 and key* give 3 elements), with
\* unique = true each distinct matching key exactly once.
C11_PatternMatching ==
    \A p \in Procs :
        Answered(p) /\ op[p] = "MatchKey" =>
            /\ Range(res[p].values) = {log[i].key : i \in Matching(p)}
            /\ \A K \in Range(res[p].values) :
                  Times(res[p].values, K) =
                      IF req[p].unique THEN 1
                      ELSE Cardinality({i \in Matching(p) : log[i].key = K})

\* key0, key0, key1 and the prefix pattern: three elements.
C11_Witness ==
    \E p \in Procs :
        /\ Answered(p) /\ op[p] = "MatchKey" /\ req[p].key = <<"k", "*">>
        /\ req[p].active /\ ~req[p].unique
        /\ Len(log) = MatchLen
        /\ log[1].key = <<"k", "0">> /\ log[2].key = <<"k", "0">> /\ log[3].key = <<"k", "1">>
        /\ res[p].values = <<<<"k", "0">>, <<"k", "0">>, <<"k", "1">>>>

\* ---------------------------------------------------------------- C12
\* The considered entries of the namespace of p's call, by position.
InNamespace(p) ==
    {i \in DOMAIN log :
        /\ log[i].namespace = req[p].namespace
        /\ req[p].active => log[i].expiration > ts[p]}

EntriesOfKey(p, K) == {i \in InNamespace(p) : log[i].key = K}

\* C12: with unique = false GetKeys returns one element for every considered
\* entry of N and CountKeys their number, duplicates kept; with unique = true
\* GetKeys returns each key of those entries exactly once and CountKeys the
\* number of distinct keys.
C12_UniqueKeys ==
    \A p \in Procs :
        /\ Answered(p) /\ op[p] = "GetKeys" =>
              \A K \in Keys \cup Range(res[p].values) :
                  Times(res[p].values, K) =
                      IF ~req[p].unique THEN Cardinality(EntriesOfKey(p, K))
                      ELSE IF EntriesOfKey(p, K) # {} THEN 1 ELSE 0
        /\ Answered(p) /\ op[p] = "CountKeys" =>
              res[p].count =
                  IF ~req[p].unique THEN Cardinality(InNamespace(p))
                  ELSE Cardinality({K \in Keys : EntriesOfKey(p, K) # {}})

\* Two entries of one key in N: GetKeys with unique = false returns the key
\* twice.
C12_Witness ==
    \E p \in Procs :
        /\ Answered(p) /\ op[p] = "GetKeys" /\ ~req[p].unique
        /\ Len(res[p].values) = 2 /\ res[p].values[1] = res[p].values[2]

\* ---------------------------------------------------------------- C13
\* The considered entries of all namespaces, by position.
InStore(p) == {i \in DOMAIN log : req[p].active => log[i].expiration > ts[p]}

PairsOf(p) == {<<log[i].namespace, log[i].key>> : i \in InStore(p)}

\* C13: CountEntries(active, unique = false) is the number of considered
\* entries of all namespaces, CountEntries(active, unique = true) the number
\* of distinct (namespace, key) pairs among them: two entries whose pairs
\* differ are counted as two.
C13_CountEntries ==
    \A p \in Procs :
        Answered(p) /\ op[p] = "CountEntries" =>
            res[p].count = IF req[p].unique THEN Cardinality(PairsOf(p))
                           ELSE Cardinality(InStore(p))

\* ---------------------------------------------------------------- C14
\* The namespaces that have a considered entry.
Populated(p) == {N \in Namespaces : \E i \in InStore(p) : log[i].namespace = N}

\* C14: GetNamespaces(active) returns every namespace that has at least one
\* considered entry exactly once and no other namespace, CountNamespaces(active)
\* the number of these namespaces, however many entries a namespace holds.
C14_Namespaces ==
    \A p \in Procs :
        /\ Answered(p) /\ op[p] = "GetNamespaces" =>
              /\ Range(res[p].values) = Populated(p)
              /\ \A N \in Populated(p) : Times(res[p].values, N) = 1
        /\ Answered(p) /\ op[p] = "CountNamespaces" =>
              res[p].count = Cardinality(Populated(p))

\* Two namespaces hold an entry each, one of them stale: an active listing
\* returns the other namespace alone.
C14_Witness ==
    \E p \in Procs :
        /\ Answered(p) /\ op[p] = "GetNamespaces" /\ req[p].active
        /\ Len(log) = 2 /\ log[1].namespace # log[2].namespace
        /\ log[1].expiration <= ts[p] /\ log[2].expiration > ts[p]
        /\ res[p].values = <<log[2].namespace>>

\* ---------------------------------------------------------------- C15
\* The entries of l at the positions in S, in their order.
Keep(l, S) ==
    LET F[i \in 0..Len(l)] ==
            IF i = 0 THEN <<>>
            ELSE IF i \in S THEN Append(F[i - 1], l[i]) ELSE F[i - 1]
    IN F[Len(l)]

\* A step leaves every entry that stays in the log as it was: it appends one
\* entry or removes some, and rewrites none.
EntriesStay ==
    \/ \E S \in SUBSET DOMAIN log : log' = Keep(log, S)
    \/ Len(log') = Len(log) + 1 /\ SubSeq(log', 1, Len(log)) = log

\* A snapshot is the clock value of the moment it is taken.
SnapshotIsNow(p) ==
    (pc[p] = "idle" /\ pc'[p] = "lock" /\ op'[p] \in ReadOps \cup {"PruneEntries"})
        => ts'[p] = now

\* C15: the clock never goes back, a snapshot is the clock value of the call,
\* and no step changes the expiration of an entry; so an entry with
\* expiration <= T for the snapshot T of some operation has expiration <= T'
\* for every snapshot T' taken later, and a read with active = true and
\* snapshot T' reports no entry with expiration <= T', whatever Puts, prunes,
\* clears and reads came in between.
C15_StalenessPermanent ==
    /\ [][now' >= now /\ EntriesStay /\ \A p \in Procs : SnapshotIsNow(p)]_vars
    /\ [](\A p \in Procs :
            Answered(p) /\ op[p] \in ReadOps /\ req[p].active =>
                ts[p] <= now /\ ReadAgrees(p))

\* The key of a stale entry was put again: the active count of the key is 1,
\* the stale entry stays out.
C15_Witness ==
    \E p \in Procs :
        /\ Answered(p) /\ op[p] = "CountKey" /\ req[p].active
        /\ Len(log) = 2
        /\ \A i \in DOMAIN log :
              log[i].namespace = req[p].namespace /\ log[i].key = req[p].key
        /\ log[1].expiration <= ts[p] /\ log[2].expiration > ts[p]
        /\ res[p].count = 1

\* ---------------------------------------------------------------- C16
DistinctPairs(l) ==
    \A i, j \in DOMAIN l :
        i # j => <<l[i].namespace, l[i].key>> # <<l[j].namespace, l[j].key>>

\* C16: the entries with distinct (namespace, key) pairs that an instance on
\* a database file held when it was closed are the entries of a fresh
\* instance opened on that file, and while none of them has expired
\* CountEntries(active = true, unique = true) of the fresh instance is their
\* number.
C16_DurableRoundTrip ==
    \A p \in Procs :
        (/\ Answered(p) /\ op[p] = "CountEntries" /\ req[p].active /\ req[p].unique
         /\ db = File /\ stored # <<>> /\ log = stored
         /\ DistinctPairs(stored)
         /\ \A i \in DOMAIN stored : stored[i].expiration > ts[p])
            => res[p].count = Len(stored)

\* ---------------------------------------------------------------- C17
\* C17 as the specification states it: `?` is a literal character of the
\* pattern, so every key MatchKey returns has `?` where the pattern has it
\* (it matches the pattern with `*` as the only wildcard).
C17_LiteralQuestionMark ==
    \A p \in Procs :
        Answered(p) /\ op[p] = "MatchKey" =>
            \A j \in DOMAIN res[p].values : StarMatch(req[p].key, res[p].values[j])

\* A glob pattern in which `?` stands for exactly one character, whatever it
\* is, and `*` for any run of characters.
RECURSIVE GlobMatch(_, _)
GlobMatch(pat, s) ==
    IF pat = <<>> THEN s = <<>>
    ELSE IF Head(pat) = "*"
         THEN GlobMatch(Tail(pat), s) \/ (s # <<>> /\ GlobMatch(pat, Tail(s)))
    ELSE /\ s # <<>>
         /\ Head(pat) = "?" \/ Head(pat) = Head(s)
         /\ GlobMatch(Tail(pat), Tail(s))

\* C17 as amended: `?` is the single-character wildcard.  MatchKey returns
\* the keys of the considered entries of N that match the pattern with `?`
\* standing for exactly one arbitrary character, so a key matches `?c` when it
\* has two characters and ends in c, with or without a `?` in front.
C17_QuestionMarkIsWildcard ==
    \A p \in Procs :
        Answered(p) /\ op[p] = "MatchKey" =>
            Range(res[p].values) =
                {log[i].key : i \in {j \in InNamespace(p) : GlobMatch(req[p].key, log[j].key)}}

\* The pattern ?c on the keys c and bc: bc is returned, c is not.
C17_Witness ==
    \E p \in Procs :
        /\ Answered(p) /\ op[p] = "MatchKey" /\ req[p].key = <<"?", "c">>
        /\ Len(log) = 2 /\ log[1].key = <<"c">> /\ log[2].key = <<"b", "c">>
        /\ log[1].namespace = req[p].namespace /\ log[2].namespace = req[p].namespace
        /\ ~req[p].active
        /\ res[p].values = <<<<"b", "c">>>>

\* ---------------------------------------------------------------- C18
\* C18: the error a method returns names the method and keeps the kind of the
\* failure under it: errors.Is finds the context error in it exactly when the
\* call failed because its context was done, and another kind (a failed
\* statement, a row of the wrong shape) otherwise.
C18_ErrorKindPreserved ==
    \A p \in Procs :
        pc[p] = "ret" /\ ~res[p].err.nil =>
            /\ res[p].err.opname = op[p]
            /\ res[p].err.unwrap # "none"
            /\ res[p].err.unwrap = "context" <=> Done(p)

\* ---------------------------------------------------------------- C19
\* The clock is read in the first step of the call, in which k.mu is not
\* touched, and the value stays the call's timestamp until the call returns.
SnapshotOnce(p) ==
    /\ (pc[p] = "idle" /\ pc'[p] = "lock" /\ op'[p] \in ReadOps \cup {"PruneEntries"})
            => ts'[p] = now /\ mu' = mu
    /\ (pc[p] \in {"lock", "drain", "exec"} /\ op[p] \in ReadOps \cup {"PruneEntries"})
            => ts'[p] = ts[p] /\ op'[p] = op[p]

\* The statement of a prune judges every row against the call's timestamp.
PruneJudgedAtSnapshot(p) ==
    Ran(p, "PruneEntries") =>
        \/ log' = log /\ ~res'[p].err.nil
        \/ log' = SelectSeq(log, LAMBDA e : ~(e.expiration <= ts[p]))

\* C19: every read and PruneEntries reads the clock once, before it asks for
\* k.mu, and never again; the rows of a read with active = true are those
\* with expiration > that value and the rows a prune removes those with
\* expiration <= that value, however far the clock has moved on while the
\* call waited for the lock.
C19_SnapshotBeforeLock ==
    /\ [][\A p \in Procs : SnapshotOnce(p) /\ PruneJudgedAtSnapshot(p)]_vars
    /\ [](\A p \in Procs :
            Answered(p) /\ op[p] \in ReadOps =>
                ts[p] <= now /\ ReadAgrees(p))

\* The clock moved on after the call: an entry that has expired by now but
\* not by the call's timestamp is counted.
C19_Witness ==
    \E p \in Procs :
        /\ Answered(p) /\ op[p] = "CountEntries" /\ req[p].active
        /\ ts[p] < now
        /\ Len(log) = 1 /\ log[1].expiration > ts[p] /\ log[1].expiration <= now
        /\ res[p].count = 1

\* ---------------------------------------------------------------- C20
\* The value of the last ttl option of an argument list, 10 seconds when it
\* has none.
LastTTL(opts) ==
    LET I == {i \in DOMAIN opts : opts[i].key = "ttl"}
    IN IF I = {} THEN defaultTTL
       ELSE opts[CHOOSE i \in I : \A j \in I : j <= i].value

\* Open fixes the TTL of the instance; no step of the instance changes it.
TTLFixedAtOpen ==
    /\ (db = NoDB /\ db' # NoDB) =>
          \A opts \in OptionLists(TTLInputs.options) :
              OpenWith(Caller, opts, "live", "none") => ttl' = LastTTL(opts)
    /\ db # NoDB => ttl' = ttl

\* Put adds its TTL to the clock value of its first step, in which k.mu is not
\* touched, and inserts that sum.
ExpirationFromCallTime(p) ==
    /\ (pc[p] = "idle" /\ pc'[p] = "lock" /\ op'[p] = "Put")
            => ts'[p] = now + ttl /\ mu' = mu
    /\ (pc[p] \in {"lock", "drain", "exec"} /\ op[p] = "Put") => ts'[p] = ts[p]
    /\ (Ran(p, "Put") /\ res'[p].err.nil) =>
            log' = Append(log, [namespace |-> req'[p].namespace, key |-> req'[p].key,
                                expiration |-> ts[p]])

\* The entries the open instance found in its database file.
Loaded == IF db = File THEN Len(stored) ELSE 0

\* C20: the TTL of an instance is the one Open computes from its options (10
\* seconds without a ttl option, else the value of the last one) and no later
\* step changes it; a Put reads the clock at the call, before it asks for
\* k.mu, and the entry it inserts carries that clock value plus the TTL; so
\* every entry an instance has put carries a clock value up to now plus the
\* one TTL of the instance.
C20_ExpirationIsCallTimePlusTTL ==
    /\ [][TTLFixedAtOpen /\ \A p \in Procs : ExpirationFromCallTime(p)]_vars
    /\ [](\A i \in DOMAIN log :
            i > Loaded => \E t0 \in 0..now : log[i].expiration = t0 + ttl)

\* An instance opened with a ttl option that is not the default: the clock
\* moved on between the call of Put and its INSERT, the entry carries the
\* clock value of the call plus the TTL.
C20_Witness ==
    \E p \in Procs :
        /\ pc[p] = "ret" /\ op[p] = "Put" /\ res[p].err.nil
        /\ ttl = MaxTTL + 1 /\ now = MaxTime
        /\ log # <<>> /\ log[Len(log)].expiration = ts[p] /\ ts[p] = ttl

\* ---------------------------------------------------------------- C21
\* The step of p that runs the query of a read method, whatever it answers.
RanRead(p) == pc[p] = "exec" /\ op[p] \in ReadOps /\ pc'[p] = "ret"

\* k.mu is held exclusively: a writer has it and no reader has.
HeldExclusively == mu.w # NoProc /\ mu.r = 0 /\ pc[mu.w] = "exec"

\* C21: the step of MatchKey, CountKey, GetKeys, CountKeys, GetNamespaces,
\* CountNamespaces or CountEntries leaves the log as it was, whether the read
\* succeeds or fails, and every step that changes the log is taken while k.mu
\* is held exclusively.
C21_ReadsDoNotMutate ==
    [][/\ \A p \in Procs : RanRead(p) => log' = log
       /\ log' # log => HeldExclusively]_vars

\* A list read has failed over a log that holds an entry stale at the read's
\* snapshot, and the entry is still there.
C21_Witness ==
    \E p \in Procs :
        /\ pc[p] = "ret" /\ op[p] \in ListOps /\ ~res[p].err.nil
        /\ Len(log) = 2 /\ log[1].expiration <= ts[p]

\* ---------------------------------------------------------------- C22
\* The step of p that runs the statement or query of its method.
RanAny(p) == pc[p] = "exec" /\ pc'[p] = "ret"

\* The row a Put of p inserts: its arguments and the expiration it computed.
Triple(p) ==
    [namespace |-> req'[p].namespace, key |-> req'[p].key, expiration |-> ts[p]]

Inserted(p) == Ran(p, "Put") /\ res'[p].err.nil /\ log' = Append(log, Triple(p))

Deleted(p) ==
    /\ Ran(p, "PruneEntries") \/ Ran(p, "ClearEntries")
    /\ res'[p].err.nil
    /\ \E S \in SUBSET DOMAIN log : log' = Keep(log, S)

\* C22: every change of the log is either the one row (namespace, key,
\* expiration) a successful Put appends or the removal of some rows by a
\* successful PruneEntries or ClearEntries; the rows that stay keep their
\* namespace, key and expiration, and a call that returns an error leaves the
\* log as it was.
C22_OnlyInsertAndBulkDelete ==
    [][/\ log' # log => \E p \in Procs : Inserted(p) \/ Deleted(p)
       /\ \A p \in Procs : RanAny(p) /\ ~res'[p].err.nil => log' = log]_vars

\* A Put that the collaborator refused has returned its error, and the row
\* put before it is the whole log.
C22_Witness ==
    \E p \in Procs :
        /\ pc[p] = "ret" /\ op[p] = "Put" /\ ~res[p].err.nil /\ ctx[p] = "live"
        /\ Len(log) = 1

\* ---------------------------------------------------------------- C23
\* The statement carries the constraint expiration > T.
HasExpirationFilter(q, T) ==
    \E i \in DOMAIN q.where : q.where[i] = GreaterThan("expiration", T)

\* The statement carries no constraint on the expiration at all.
NoExpirationFilter(q) == \A i \in DOMAIN q.where : q.where[i].col # "expiration"

DistinctCounts ==
    {"COUNT(DISTINCT key)", "COUNT(DISTINCT namespace)",
     "COUNT(DISTINCT CONCAT(namespace, key))"}

\* The statement deduplicates: SELECT DISTINCT or COUNT(DISTINCT ...).
Deduplicates(q) == q.distinct \/ q.col \in DistinctCounts

TwoFlagOps == {"MatchKey", "GetKeys", "CountKeys", "CountEntries"}

\* C23: the statement composed for MatchKey, GetKeys, CountKeys or
\* CountEntries carries the expiration filter exactly when active is true and
\* deduplicates exactly when unique is true, for each of the four combinations
\* of the two flags; the statement composed for CountKey, GetNamespaces or
\* CountNamespaces carries the expiration filter exactly when active is true.
C23_FlagOrthogonality ==
    \A p \in Procs :
        pc[p] = "ret" /\ op[p] \in ReadOps =>
            /\ IF req[p].active THEN HasExpirationFilter(tx[p], ts[p])
                                ELSE NoExpirationFilter(tx[p])
            /\ op[p] \in TwoFlagOps => (Deduplicates(tx[p]) <=> req[p].unique)

\* CountEntries was composed with unique and active both true: its statement
\* counts distinct pairs and filters on the expiration.
C23_Witness ==
    \E p \in Procs :
        /\ pc[p] = "ret" /\ op[p] = "CountEntries" /\ req[p].active /\ req[p].unique
        /\ tx[p].col = "COUNT(DISTINCT CONCAT(namespace, key))"
        /\ tx[p].where = <<GreaterThan("expiration", ts[p])>>

\* ---------------------------------------------------------------- C24
\* The step of p is the body of its list method with collaborator outcome
\* fault (an outcome that does not cut the rows short).
ListStep(p, fault) ==
    op[p] \in ListOps /\ RanRead(p) /\ ReadList(p, op[p], req'[p], tx'[p], fault, 0)

\* The step of p is the body of its count method with collaborator outcome fault.
CountStep(p, fault) ==
    op[p] \in CountOps /\ RanRead(p) /\ ReadCount(p, op[p], req'[p], tx'[p], fault)

\* C24: a list read whose rows cannot be scanned into one string (more than
\* one column) returns an error and no values, a count read whose row cannot
\* be scanned into an integer returns an error, and a read whose rows are
\* well shaped (one column of the right type, live context) returns nil.
C24_SchemaViolations ==
    [][\A p \in Procs :
          RanRead(p) =>
              /\ \/ ~res'[p].err.nil /\ res'[p].values = <<>>
                 \/ ~(ListStep(p, "shape") /\ Rows(tx'[p], log) # <<>>)
              /\ ~Done(p) /\ ListStep(p, "none") =>
                    res'[p].err.nil /\ res'[p].values = Rows(tx'[p], log)
              /\ \/ ~res'[p].err.nil /\ res'[p].count = invalidCount
                 \/ ~CountStep(p, "shape")
              /\ ~Done(p) /\ CountStep(p, "none") =>
                    res'[p].err.nil /\ res'[p].count = Scalar(tx'[p], log)]_vars

\* A list read over two matching rows has failed in Scan.
C24_Witness ==
    \E p \in Procs :
        /\ pc[p] = "ret" /\ op[p] = "GetKeys" /\ res[p].err.text = "scan"
        /\ res[p].values = <<>>
        /\ Len(Rows(tx[p], log)) = 2

\* ---------------------------------------------------------------- C25
\* p is a read that has taken its snapshot and waits for k.mu.RLock().
WaitingRead(p) == pc[p] = "lock" /\ op[p] \in ReadOps

\* The step is a PruneEntries of q that succeeds while the read p waits.
PrunedBefore(q, p) == Ran(q, "PruneEntries") /\ res'[q].err.nil /\ WaitingRead(p)

\* C25 as claimed: whatever the interleaving of Put, PruneEntries and reads, a
\* PruneEntries that runs between the snapshot of an active read and the
\* read's lock removes no entry whose expiration exceeds the read's snapshot,
\* and the read returns the entries whose expiration exceeds its snapshot.
C25_PruneInvisible ==
    /\ [][\A p \in Procs, q \in Procs :
             PrunedBefore(q, p) => Unexpired(log', ts[p]) = Unexpired(log, ts[p])]_vars
    /\ [](\A p \in Procs : Answered(p) /\ op[p] \in ReadOps => ReadAgrees(p))

\* C25: a PruneEntries removes the entries whose expiration is at most its own
\* snapshot and no other.  One that runs between the snapshot of an active
\* read and the read's lock therefore keeps every entry active for the read
\* when its snapshot is not later than the read's; one called after the clock
\* has moved on keeps the entries whose expiration exceeds its own snapshot.
\* The read returns the entries in the log while it holds the lock whose
\* expiration exceeds the read's snapshot.
C25_PruneAtOwnSnapshot ==
    /\ [][\A p \in Procs, q \in Procs :
             PrunedBefore(q, p) =>
                 /\ log' = Unexpired(log, ts[q])
                 /\ ts[q] <= ts[p] => Unexpired(log', ts[p]) = Unexpired(log, ts[p])]_vars
    /\ [](\A p \in Procs : Answered(p) /\ op[p] \in ReadOps /\ req[p].active =>
              ReadAgrees(p))

\* A PruneEntries whose snapshot is that of a waiting read has removed a stale
\* entry and kept the entry that is active for the read.
C25_Witness ==
    \E p \in Procs, q \in Procs :
        /\ WaitingRead(p)
        /\ pc[q] = "ret" /\ op[q] = "PruneEntries" /\ res[q].err.nil
        /\ res[q].affected = 1 /\ ts[q] <= ts[p]
        /\ Len(log) = 1 /\ log[1].expiration > ts[p]

\* ---------------------------------------------------------------- C26
\* What a list query and a count query answer on the log as it is now.
ListOf(q) == queryValues(q, log, FALSE, "none", 0).values

CountOf(q) == queryCount(q, log, FALSE, "none").count

\* The answer p has agrees with the answer of the sibling method for the same
\* arguments, flags and snapshot on the same log.
AgreesWithSibling(p) ==
    LET N == req[p].namespace
        active == req[p].active
        unique == req[p].unique
        T == ts[p]
    IN /\ op[p] = "CountKeys" =>
             res[p].count = Len(ListOf(newGetKeysQuery(N, active, unique, T)))
       /\ op[p] = "GetKeys" =>
             /\ Len(res[p].values) = CountOf(newCountKeysQuery(N, active, unique, T))
             /\ ~unique => \A K \in Keys :
                   Times(res[p].values, K) = CountOf(newCountKeyQuery(N, K, active, T))
       /\ op[p] = "CountNamespaces" =>
             res[p].count = Len(ListOf(newGetNamespacesQuery(active, T)))
       /\ op[p] = "GetNamespaces" =>
             Len(res[p].values) = CountOf(newCountNamespacesQuery(active, T))
       /\ op[p] = "CountKey" =>
             res[p].count = Times(ListOf(newGetKeysQuery(N, active, FALSE, T)), req[p].key)

\* C26: on the same log, with the same snapshot and flags, CountKeys(N,
\* active, unique) is the length of GetKeys(N, active, unique),
\* CountNamespaces(active) the length of GetNamespaces(active), and
\* CountKey(N, K, active) the number of times K occurs in GetKeys(N, active,
\* unique = false).
C26_CountsAgreeWithLists == \A p \in Procs : Answered(p) => AgreesWithSibling(p)

\* CountKeys with unique = true has answered 1 on a namespace that holds the
\* same key twice.
C26_Witness ==
    \E p \in Procs :
        /\ Answered(p) /\ op[p] = "CountKeys" /\ req[p].unique /\ res[p].count = 1
        /\ Len(ListOf(newGetKeysQuery(req[p].namespace, req[p].active, FALSE, ts[p]))) = 2

\* ---------------------------------------------------------------- C27
\* C27: when the collaborator fails or the context ends while the rows of
\* MatchKey, GetKeys or GetNamespaces are being iterated, the method returns
\* an error: a nil error comes with all the rows of the query, never with a
\* proper prefix of them.
C27_NoTruncatedSuccess ==
    \A p \in Procs :
        pc[p] = "ret" /\ op[p] \in ListOps /\ res[p].err.nil =>
            ~res[p].cut /\ res[p].values = Rows(tx[p], log)

\* ---------------------------------------------------------------- C28
\* The considered entries of the namespace whose key is the pattern itself.
EqualToPattern(p) ==
    {i \in DOMAIN log :
        /\ log[i].namespace = req[p].namespace
        /\ log[i].key = req[p].key
        /\ req[p].active => log[i].expiration > ts[p]}

Wildcards == {"*", "?"}

\* C28: a pattern of MatchKey that holds neither `*` nor `?` matches only
\* itself, also when it holds `%` or `_`: the call returns the key once for
\* each considered entry of the namespace whose key equals the pattern (once
\* in all with unique = true) and nothing else.
C28_LiteralPattern ==
    \A p \in Procs :
        Answered(p) /\ op[p] = "MatchKey" /\ Range(req[p].key) \cap Wildcards = {} =>
            /\ Range(res[p].values) = {log[i].key : i \in EqualToPattern(p)}
            /\ Len(res[p].values) =
                  IF req[p].unique THEN Cardinality({log[i].key : i \in EqualToPattern(p)})
                  ELSE Cardinality(EqualToPattern(p))

\* ---------------------------------------------------------------- C29
\* p has its side of k.mu.
Acquired(p) == pc[p] \in {"exec", "ret"}

\* p has returned and holds no side of k.mu.
Released(p) == pc[p] = "idle" /\ mu.w # p

\* C29: under a fair scheduler, with collaborator calls that return, every
\* call that was made gets k.mu, returns and releases it, however many
\* readers and writers run concurrently; a Put, PruneEntries or ClearEntries
\* that waits gets the lock even when reads keep arriving.
C29_EventualCompletion ==
    \A p \in Procs :
        /\ (pc[p] = "lock") ~> Released(p)
        /\ (pc[p] \in {"lock", "drain"} /\ op[p] \in WriteOps) ~> (pc[p] = "exec")

\* A writer has taken the writer side and waits for a reader that holds the
\* lock to leave.
C29_Witness ==
    \E p \in Procs, q \in Procs :
        /\ pc[p] = "drain" /\ op[p] \in WriteOps
        /\ Acquired(q) /\ op[q] \in ReadOps /\ mu.r > 0

====
